---- MODULE Spec2Model ----
(***************************************************************************)
(* DicomViewer: metadata extraction and reconciliation.                    *)
(*                                                                         *)
(* The module models the DICOM viewer component (its lifecycle hooks, the  *)
(* baseline fetch, the delay timer, the file load and the metadata         *)
(* write-back), the ImageService calls it makes and the ImageController    *)
(* endpoints that answer them.                                             *)
(*                                                                         *)
(* JavaScript values are tagged records, so that the strict comparisons of *)
(* the code (===, !==) between values of different types are comparisons   *)
(* of records.                                                             *)
(***************************************************************************)
EXTENDS Integers, Sequences, FiniteSets, TLC

(***************************************************************************)
(* Bounds of the model.                                                    *)
(***************************************************************************)
\* number of distinct non-empty values a generated field may take
MaxVal == 2
\* number of selection changes (ngOnChanges calls) after the view is
\* initialised; one more may precede it
MaxSelections == 2
\* number of explicit retryLoad calls in one run
MaxRetries == 1
\* zoomIn calls above the fitted scale
MaxZoomIns == 4

(***************************************************************************)
(* JavaScript values.                                                      *)
(***************************************************************************)
Str(s) == [t |-> "str", s |-> s, n |-> 0]
Num(n) == [t |-> "num", s |-> "", n |-> n]
NaN == [t |-> "nan", s |-> "", n |-> 0]
Undefined == [t |-> "undef", s |-> "", n |-> 0]
JsNull == [t |-> "null", s |-> "", n |-> 0]
Arr(xs) == [t |-> "arr", s |-> "", n |-> 0, items |-> xs]
\* in place of a value: reading the element raises an error
Throws == [t |-> "throws", s |-> "", n |-> 0]

\* JavaScript truthiness, as used by `||`, `!x` and `if (x)`
Truthy(v) ==
    CASE v.t = "str" -> v.s # ""
      [] v.t = "num" -> v.n # 0
      [] v.t = "arr" -> TRUE
      [] OTHER -> FALSE

\* a || b
Or(a, b) == IF Truthy(a) THEN a ELSE b

\* a !== b  (NaN differs from everything, itself included)
StrictNe(a, b) == a.t = "nan" \/ b.t = "nan" \/ a # b

(***************************************************************************)
(* Strings.                                                                *)
(***************************************************************************)
UpperChars == "ABCDEFGHIJKLMNOPQRSTUVWXYZ"
LowerChars == "abcdefghijklmnopqrstuvwxyz"
DigitChars == "0123456789"

CharAt(s, i) == SubSeq(s, i, i)

IndexIn(c, alphabet) ==
    IF \E i \in 1..Len(alphabet) : CharAt(alphabet, i) = c
    THEN CHOOSE i \in 1..Len(alphabet) : CharAt(alphabet, i) = c
    ELSE 0

RECURSIVE MapChars(_, _, _)
MapChars(s, from, to) ==
    IF s = "" THEN ""
    ELSE LET c == CharAt(s, 1)
             i == IndexIn(c, from)
         IN (IF i = 0 THEN c ELSE CharAt(to, i)) \o MapChars(Tail(s), from, to)

toLowerCase(s) == MapChars(s, UpperChars, LowerChars)
toUpperCase(s) == MapChars(s, LowerChars, UpperChars)

\* key.replace(/[\(\)]/g, '')
RECURSIVE StripParens(_)
StripParens(s) ==
    IF s = "" THEN ""
    ELSE LET c == CharAt(s, 1)
         IN (IF c = "(" \/ c = ")" THEN "" ELSE c) \o StripParens(Tail(s))

startsWith(s, p) == Len(s) >= Len(p) /\ SubSeq(s, 1, Len(p)) = p

\* Array.prototype.join(sep) over an array of strings
RECURSIVE Join(_, _)
Join(xs, sep) ==
    IF Len(xs) = 0 THEN ""
    ELSE IF Len(xs) = 1 THEN xs[1]
    ELSE xs[1] \o sep \o Join(Tail(xs), sep)

\* value.toString() of a scalar
RECURSIVE NatToString(_)
NatToString(n) ==
    IF n < 10 THEN CharAt(DigitChars, n + 1)
    ELSE NatToString(n \div 10) \o CharAt(DigitChars, (n % 10) + 1)

toString(v) ==
    CASE v.t = "str" -> v.s
      [] v.t = "num" -> NatToString(v.n)
      [] v.t = "nan" -> "NaN"
      [] OTHER -> ""

\* the value of the longest prefix of decimal digits of s, -1 if there is none
RECURSIVE DigitsPrefix(_, _, _)
DigitsPrefix(s, acc, seen) ==
    IF s = "" THEN (IF seen THEN acc ELSE -1)
    ELSE LET d == IndexIn(CharAt(s, 1), DigitChars)
         IN IF d = 0 THEN (IF seen THEN acc ELSE -1)
            ELSE DigitsPrefix(Tail(s), acc * 10 + (d - 1), TRUE)

RECURSIVE SkipSpaces(_)
SkipSpaces(s) == IF s # "" /\ CharAt(s, 1) = " " THEN SkipSpaces(Tail(s)) ELSE s

\* parseInt(s): leading white space skipped, then decimal digits; NaN when
\* no digit starts the rest (signs do not occur in the model's inputs)
parseInt(s) ==
    LET n == DigitsPrefix(SkipSpaces(s), 0, FALSE)
    IN IF n < 0 THEN NaN ELSE Num(n)

\* parseFloat(s) on the same inputs, which carry neither sign nor fraction
parseFloat(s) ==
    LET n == DigitsPrefix(SkipSpaces(s), 0, FALSE)
    IN IF n < 0 THEN NaN ELSE Num(n)

(***************************************************************************)
(* The metadata record.                                                    *)
(***************************************************************************)
\* the keys of extractedMetadata, in the order of the object literal
FieldOrder ==
    << "patientName", "patientId", "patientBirthDate", "patientSex",
       "modality", "rows", "columns", "imageType",
       "studyId", "studyInstanceUid", "studyDate", "studyTime",
       "seriesInstanceUid", "seriesNumber", "seriesDescription",
       "bodyPart",
       "imageId", "instanceNumber", "windowCenter", "windowWidth" >>

Fields == { FieldOrder[i] : i \in 1..Len(FieldOrder) }

NumericFields == { "rows", "columns", "windowCenter", "windowWidth" }
DateFields == { "patientBirthDate", "studyDate" }

\* this.dicomMetadata = null
NullMeta == [null |-> TRUE]

\* the record fetchMetadataFromApi initialises before the request is sent
EmptyMetadata ==
    [f \in Fields |-> IF f \in NumericFields THEN Num(0) ELSE Str("")]

\* the DICOM tag and the keyword alias extractDicomMetadata reads a field from
TagOf ==
    [ patientName |-> "00100010", patientId |-> "00100020",
      patientBirthDate |-> "00100030", patientSex |-> "00100040",
      modality |-> "00080060", rows |-> "00280010", columns |-> "00280011",
      imageType |-> "00080008",
      studyId |-> "00200010", studyInstanceUid |-> "0020000D",
      studyDate |-> "00080020", studyTime |-> "00080030",
      seriesInstanceUid |-> "0020000E", seriesNumber |-> "00200011",
      seriesDescription |-> "0008103E",
      bodyPart |-> "00180015", instanceNumber |-> "00200013" ]

AliasOf ==
    [ patientName |-> "PatientName", patientId |-> "PatientID",
      patientBirthDate |-> "PatientBirthDate", patientSex |-> "PatientSex",
      modality |-> "Modality", rows |-> "Rows", columns |-> "Columns",
      imageType |-> "ImageType",
      studyId |-> "StudyID", studyInstanceUid |-> "StudyInstanceUID",
      studyDate |-> "StudyDate", studyTime |-> "StudyTime",
      seriesInstanceUid |-> "SeriesInstanceUID", seriesNumber |-> "SeriesNumber",
      seriesDescription |-> "SeriesDescription",
      bodyPart |-> "BodyPartExamined", instanceNumber |-> "InstanceNumber" ]

\* the fields whose value comes from a tag of the dataset
TagFields == DOMAIN TagOf

(***************************************************************************)
(* Tag lookup.  A dataset is a function from tag keys to elements; an      *)
(* element is a record with a `value`.                                     *)
(***************************************************************************)
\* a variant of the delimiter: the comma of Array.prototype.toString
CommaDelimiter == ","

\* the delimiter of value.join('\\')
ArrayDelimiter == "\\"

getTagValue(dataset, tagName) ==
    LET xName == "x" \o tagName
        value ==
            IF tagName \in DOMAIN dataset THEN dataset[tagName].value
            ELSE IF ~startsWith(tagName, "x") /\ xName \in DOMAIN dataset
                 THEN dataset[xName].value
                 ELSE JsNull
    IN CASE value.t \in {"undef", "null"} -> ""
         [] value.t = "arr" -> Join(value.items, ArrayDelimiter)
         [] value.t = "throws" -> ""
         [] OTHER -> toString(value)

\* a variant of the list without the lower-cased spelling
FormatsWithoutLowerCase(key) ==
    << key, "x" \o key, toUpperCase(key), StripParens(key) >>

\* the spellings getTag tries for a key, in order
Formats(key) ==
    << key, "x" \o key, toLowerCase(key), toUpperCase(key), StripParens(key) >>

AllKeys == { TagOf[f] : f \in TagFields } \cup { AliasOf[f] : f \in TagFields }
FormatsTable == [k \in AllKeys |-> Formats(k)]

RECURSIVE FirstFound(_, _, _)
FirstFound(dataset, formats, i) ==
    IF i > Len(formats) THEN ""
    ELSE LET value == getTagValue(dataset, formats[i])
         IN IF value # "" THEN value ELSE FirstFound(dataset, formats, i + 1)

getTag(dataset, key) == FirstFound(dataset, FormatsTable[key], 1)

\* a variant of formatDate that reformats every string of 8 or more characters
formatDateFromEight(dateString) ==
    IF Len(dateString) < 8 THEN dateString
    ELSE SubSeq(dateString, 1, 4) \o "-" \o SubSeq(dateString, 5, 6)
             \o "-" \o SubSeq(dateString, 7, 8)

formatDate(dateString) ==
    IF dateString = "" \/ Len(dateString) # 8 THEN dateString
    ELSE SubSeq(dateString, 1, 4) \o "-" \o SubSeq(dateString, 5, 6)
             \o "-" \o SubSeq(dateString, 7, 8)

\* getTag(tag) || getTag(alias)
TagOrAlias(dataset, f) ==
    LET byTag == getTag(dataset, TagOf[f])
    IN IF byTag # "" THEN byTag ELSE getTag(dataset, AliasOf[f])

\* the object literal `extractedMetadata`
ExtractedMetadata(image) ==
    [f \in Fields |->
        CASE f = "imageId" -> Str(image.imageId)
          [] f = "windowCenter" -> Or(image.windowCenter, Num(0))
          [] f = "windowWidth" -> Or(image.windowWidth, Num(0))
          [] f \in {"rows", "columns"} ->
                LET raw == TagOrAlias(image.elements, f)
                IN parseInt(IF raw # "" THEN raw ELSE "0")
          [] f \in DateFields -> Str(formatDate(TagOrAlias(image.elements, f)))
          [] OTHER -> Str(TagOrAlias(image.elements, f))]

(***************************************************************************)
(* The merge of extractDicomMetadata.                                      *)
(***************************************************************************)
\* a variant of the guard without the test for '': an empty file value
\* would replace the record's
UsesFileValueEvenIfEmpty(newValue) ==
    /\ newValue.t \notin {"null", "undef"}
    /\ newValue # Num(0)
    /\ newValue # Str("Not available")

\* the guard "Only use non-empty values from the DICOM file"
UsesFileValue(newValue) ==
    /\ newValue.t \notin {"null", "undef"}
    /\ newValue # Str("")
    /\ newValue # Num(0)
    /\ newValue # Str("Not available")

\* a variant of the merge that adds a numeric file value to the record's
MergedValueAccumulating(oldValue, newValue) ==
    IF ~UsesFileValue(newValue) THEN oldValue
    ELSE IF oldValue.t = "num" /\ newValue.t = "num"
         THEN Num(oldValue.n + newValue.n)
         ELSE newValue

\* the value mergedMetadata[key] ends with
MergedValue(oldValue, newValue) ==
    IF UsesFileValue(newValue) THEN newValue ELSE oldValue

\* whether changes[key] is recorded
ChangeRecorded(oldValue, newValue) ==
    UsesFileValue(newValue) /\ StrictNe(oldValue, newValue)

NoChanges == [f \in {} |-> [from |-> JsNull, to |-> JsNull]]

\* the forEach over Object.keys(extractedMetadata)
MergeMetadata(current, extracted) ==
    [ merged |-> [f \in Fields |-> MergedValue(current[f], extracted[f])],
      changes |-> [f \in { g \in Fields : ChangeRecorded(current[g], extracted[g]) }
                     |-> [from |-> current[f], to |-> extracted[f]]] ]

\* what saveMetadataToServer sends: nothing without a record or a selection
NoPayload == [none |-> TRUE]
saveMetadataToServer(metadata, selected) ==
    IF metadata = NullMeta \/ selected = 0 THEN NoPayload
    ELSE [imageId |-> selected, metadata |-> metadata]

(***************************************************************************)
(* The server: the DicomData table and the metadata endpoints of           *)
(* ImageController.                                                        *)
(***************************************************************************)
Images == {1, 2}

\* the metadata columns of DicomDataModel (imageId is not stored)
DbFields == Fields \ {"imageId"}

NoRow == [norow |-> TRUE]

\* DateTime.TryParse succeeds on the ISO form yyyy-MM-dd the client sends
IsIsoDate(s) ==
    /\ Len(s) = 10
    /\ CharAt(s, 5) = "-" /\ CharAt(s, 8) = "-"
    /\ \A i \in {1, 2, 3, 4, 6, 7, 9, 10} : IndexIn(CharAt(s, i), DigitChars) # 0

\* ParseDateOrNull: the stored DateTime? is kept in its yyyy-MM-dd form
ParseDateOrNull(v) ==
    IF v.t # "str" \/ v.s = "" THEN JsNull
    ELSE IF IsIsoDate(v.s) THEN v ELSE JsNull

\* the value the model binder gives a DTO property: JSON.stringify writes
\* NaN as null and drops undefined
DtoValue(v) == IF v.t \in {"nan", "undef"} THEN JsNull ELSE v

\* ImageController.UpdateMetadata: every column is assigned from the DTO
UpdateMetadata(row, metadata) ==
    [f \in DbFields |->
        IF f \in DateFields THEN ParseDateOrNull(DtoValue(metadata[f]))
        ELSE DtoValue(metadata[f])]

\* ImageController.GetMetadata: the anonymous result object
GetMetadata(row) ==
    [f \in DbFields |->
        IF row[f].t = "null"
        THEN (IF f \in NumericFields THEN Num(0) ELSE Str(""))
        ELSE row[f]]

\* the HTTP method ImageService.updateImageMetadata sends
UpdateRequestMethod == "POST"
\* a variant of the routing that lets every method through
RoutesAnyMethod(method) == method \in {"GET", "PUT", "POST"}

\* the route of UpdateMetadata: [HttpPut("{id}/metadata")]
RoutesToUpdateMetadata(method) == method = "PUT"

\* the request of updateImageMetadata ends in a response, not in an error:
\* the route accepts it and the record exists (else 405 or 404)
WriteSucceeds(w, table) ==
    RoutesToUpdateMetadata(UpdateRequestMethod) /\ table[w.imageId] # NoRow

\* a variant of the pipe of updateImageMetadata whose tap callback also runs
\* when the request failed
NotifiesAlways(ok) == TRUE

\* tap(response => ...) runs its callback on a response only; an error goes
\* past it to catchError
NotifiesNext(ok) == ok

\* the fields of a DicomImage in the client's list that come from metadata
ListFields == {"patientId", "patientName", "modality", "studyInstanceUid"}
NoEntry == [noentry |-> TRUE]

\* ImageController.GetAll: the entry of a stored row in the list
ListEntry(row) == IF row = NoRow THEN NoEntry ELSE [g \in ListFields |-> row[g]]

\* the entry the tap callback of updateImageMetadata puts in the list
ListUpdate(entry, metadata) == [g \in ListFields |-> metadata[g]]

\* the body `{}` that getImageMetadata's catchError substitutes on an error
EmptyObject == [f \in {} |-> JsNull]

(***************************************************************************)
(* Generated inputs: files and stored records.                             *)
(***************************************************************************)
\* selector 0 is "absent", 1..MaxVal are ordinary values, MaxVal + 1 is the
\* irregular value of the kind
Selectors == 0..(MaxVal + 1)
Irregular == MaxVal + 1

PatientGroup == {"patientName", "patientId", "patientBirthDate", "patientSex",
                 "rows", "windowCenter"}
WindowGroup == {"windowCenter", "windowWidth"}
\* the columns a stored row can have filled
Masks == {Fields, PatientGroup}
\* the attributes a file can carry
FileMasks == {Fields, PatientGroup, WindowGroup}

\* the raw string a file carries in a tag
RawText(sel) ==
    IF sel = 0 THEN "" ELSE IF sel = Irregular THEN "Not available"
    ELSE "T" \o NatToString(sel)
RawDate(sel) ==
    IF sel = 0 THEN "" ELSE IF sel = Irregular THEN "2023"
    ELSE "2023011" \o NatToString(sel)
RawInt(sel) ==
    IF sel = 0 THEN "" ELSE IF sel = Irregular THEN "abc"
    ELSE NatToString(256 * sel)
WindowValue(sel) ==
    IF sel = 0 THEN Undefined ELSE IF sel = Irregular THEN NaN
    ELSE Num(40 * sel)

RawOf(f, text, num) ==
    IF f \in {"rows", "columns"} THEN RawInt(num)
    ELSE IF f \in DateFields THEN RawDate(text)
    ELSE RawText(text)

\* `wadouri:${getDicomImageUrl(id)}`
WadoImageId(id) == "wadouri:http://localhost:5028/api/image/" \o NatToString(id)

\* the key dicom-parser files an element under: 'x' and the lower-case tag
ParserKey == [f \in TagFields |-> "x" \o toLowerCase(TagOf[f])]

\* a stored file: whether cornerstone can load it, whether the loaded image
\* carries a dataset, and the values of the tags in `mask`
FileDescriptors ==
    [ hasData : BOOLEAN, text : Selectors, num : Selectors, mask : FileMasks ]

\* the image cornerstone resolves for the file of image `id`
MakeImage(id, file) ==
    LET present == { f \in TagFields \cap file.mask : RawOf(f, file.text, file.num) # "" }
        keyField == [k \in { ParserKey[f] : f \in present } |->
                        CHOOSE f \in present : ParserKey[f] = k]
    IN [ imageId |-> WadoImageId(id),
         windowCenter |-> IF "windowCenter" \in file.mask
                          THEN WindowValue(file.num) ELSE Undefined,
         windowWidth |-> IF "windowWidth" \in file.mask
                         THEN WindowValue(file.num) ELSE Undefined,
         hasData |-> file.hasData,
         elements |-> [k \in DOMAIN keyField |->
                          [value |-> Str(RawOf(keyField[k], file.text, file.num))]] ]

\* a table, made explicit so that it is evaluated once
Tabulated(t) == IF t = t THEN t ELSE t

\* the images cornerstone can resolve (loadAndCacheImage caches them)
ImageTable ==
    Tabulated([id \in Images, file \in FileDescriptors |-> MakeImage(id, file)])

\* the `extractedMetadata` literal of every image that carries a dataset
ExtractedTable ==
    Tabulated([key \in { k \in DOMAIN ImageTable : ImageTable[k].hasData } |->
                  ExtractedMetadata(ImageTable[key])])

\* extractDicomMetadata as a function of the component's record, the
\* selection and the loaded image: the record it leaves, the changes it
\* logs and the payload it sends.  An image without `data` makes the first
\* statement throw, and the catch leaves everything as it was.
\* `image` is the key of the loaded image in ImageTable
extractDicomMetadata(current, selected, image) ==
    IF ~ImageTable[image].hasData
    THEN [ threw |-> TRUE, merged |-> FALSE, extracted |-> NullMeta,
           metadata |-> current, changes |-> NoChanges, payload |-> NoPayload ]
    ELSE LET extracted == ExtractedTable[image]
         IN IF current = NullMeta
            THEN [ threw |-> FALSE, merged |-> FALSE, extracted |-> extracted,
                   metadata |-> extracted, changes |-> NoChanges,
                   payload |-> saveMetadataToServer(extracted, selected) ]
            ELSE LET m == MergeMetadata(current, extracted)
                 IN [ threw |-> FALSE, merged |-> TRUE, extracted |-> extracted,
                      metadata |-> m.merged, changes |-> m.changes,
                      payload |-> saveMetadataToServer(m.merged, selected) ]


\* the value a record holds for a field under the selectors
RecordValue(f, text, num) ==
    CASE f \in {"rows", "columns"} ->
            IF num = Irregular THEN NaN ELSE Num(256 * num)
      [] f \in {"windowCenter", "windowWidth"} ->
            IF num = Irregular THEN NaN ELSE Num(40 * num)
      [] f \in DateFields -> Str(formatDate(RawDate(text)))
      [] OTHER -> Str(RawText(text))

\* a record of the component: the fields in `mask` carry the selectors'
\* values, the others their empty value
MakeRecord(text, num, mask) ==
    [f \in Fields |->
        IF f # "imageId" /\ f \in mask THEN RecordValue(f, text, num)
        ELSE EmptyMetadata[f]]

\* a stored row: NULL where the record is empty
MakeRow(text, num, mask) ==
    [f \in DbFields |->
        LET v == MakeRecord(text, num, mask)[f]
        IN IF v = EmptyMetadata[f] \/ v.t = "nan" THEN JsNull
           ELSE IF f \in DateFields THEN ParseDateOrNull(v) ELSE v]

(***************************************************************************)
(* The upload path: ImageService.parseMetadataFromFile, whose own getTag   *)
(* reads dataset.elements[format] and then dataset.string(format).         *)
(***************************************************************************)
\* the spellings the upload getTag tries for a tag, in order
UploadFormats(tag) == << tag, "x" \o tag, toLowerCase(tag), toUpperCase(tag) >>

\* the tag parseMetadataFromFile reads each field from
UploadTagOf ==
    [f \in TagFields \cup WindowGroup |->
        IF f = "windowCenter" THEN "00281050"
        ELSE IF f = "windowWidth" THEN "00281051"
        ELSE TagOf[f]]

\* dataset.string(format): the text of the element, which for a
\* multi-valued element is its items, backslash-delimited as DICOM encodes them
datasetString(value) ==
    IF value.t = "arr" THEN Join(value.items, "\\") ELSE toString(value)

\* the loop over the spellings from the i-th on; the try/catch is around the
\* whole loop, so an element whose read raises ends it with ''
RECURSIVE UploadFirstFound(_, _, _)
UploadFirstFound(dataset, formats, i) ==
    IF i > Len(formats) THEN ""
    ELSE IF formats[i] \notin DOMAIN dataset
         THEN UploadFirstFound(dataset, formats, i + 1)
         ELSE LET value == dataset[formats[i]].value
              IN IF value.t = "throws" THEN ""
                 ELSE IF datasetString(value) # "" THEN datasetString(value)
                 ELSE UploadFirstFound(dataset, formats, i + 1)

uploadGetTag(dataset, tag) == UploadFirstFound(dataset, UploadFormats(tag), 1)

\* the formatDate of parseMetadataFromFile
uploadFormatDate(dateString) ==
    IF dateString = "" \/ Len(dateString) # 8 THEN dateString
    ELSE SubSeq(dateString, 1, 4) \o "-" \o SubSeq(dateString, 5, 6)
             \o "-" \o SubSeq(dateString, 7, 8)

\* getTag(tag) || fallback
OrElse(text, fallback) == IF text # "" THEN text ELSE fallback

\* the object literal `metadata` of parseMetadataFromFile
parseMetadataFromFile(dataset, fileName) ==
    [f \in Fields |->
        CASE f = "imageId" -> Str(fileName)
          [] f \in {"rows", "columns"} ->
                parseInt(OrElse(uploadGetTag(dataset, UploadTagOf[f]), "0"))
          [] f \in WindowGroup ->
                parseFloat(OrElse(uploadGetTag(dataset, UploadTagOf[f]), "0"))
          [] f \in DateFields ->
                Str(uploadFormatDate(OrElse(uploadGetTag(dataset, UploadTagOf[f]), "")))
          [] OTHER -> Str(OrElse(uploadGetTag(dataset, UploadTagOf[f]), ""))]

(***************************************************************************)
(* Generated inputs of the extraction functions.                           *)
(***************************************************************************)
\* the most elements a drawn dictionary holds
MaxKeys == 2
\* the longest raw date string drawn
MaxLen == 9

\* the fields probed: a tag of digits only, a tag with a hexadecimal letter,
\* an integer field, a multi-valued field
ProbeFields == {"patientName", "studyInstanceUid", "rows", "imageType"}

\* the keys a dictionary may file a field under: the tag and the keyword in
\* their case variants, each with and without the parser's 'x'
ProbeKeys(f) ==
    LET base == { TagOf[f], toLowerCase(TagOf[f]), toUpperCase(TagOf[f]),
                  AliasOf[f], toLowerCase(AliasOf[f]), toUpperCase(AliasOf[f]) }
    IN base \cup { "x" \o k : k \in base }

\* what a multi-valued element can hold: an array of two items, an array
\* without items, an array of one empty item, or a single value
ArrayStates ==
    { [value |-> Arr(<< "CT", "AXIAL" >>)], [value |-> Arr(<< >>)],
      [value |-> Arr(<< "" >>)], [value |-> Str("CT")] }

\* what an element can hold: one of two values of the field's kind, the
\* empty string, or a value whose read raises
ElementStates(f) ==
    IF f = "imageType" THEN ArrayStates
    ELSE { [value |-> Str(RawOf(f, 1, 1))],
           [value |-> Str(RawOf(f, Irregular, Irregular))],
           [value |-> Str("")], [value |-> Throws] }

\* the dictionaries of at most MaxKeys elements
Datasets(f) ==
    UNION { [keys -> ElementStates(f)] :
              keys \in { ks \in SUBSET ProbeKeys(f) : Cardinality(ks) <= MaxKeys } }

\* the raw date strings: the prefixes of a date with a time, and of a text
DateSources == { "20230115093000", "Not available." }
RawDates == { SubSeq(src, 1, n) : src \in DateSources, n \in 0..MaxLen }

\* the name of the uploaded file
UploadName == "image.dcm"

\* the image of a drawn dictionary: a dataset without window attributes
ProbeImage(dataset) ==
    [ imageId |-> WadoImageId(1), windowCenter |-> Undefined,
      windowWidth |-> Undefined, hasData |-> TRUE, elements |-> dataset ]

(***************************************************************************)
(* State.                                                                  *)
(***************************************************************************)
VARIABLES
    \* DicomViewerComponent
    selectedImage,          \* id of the selected image, 0 for null
    element,                \* the container element has been captured
    cornerstoneInitialized,
    isLoading,
    isImageLoaded,
    loadError,              \* "none" for null, else which message is set
    dicomMetadata,          \* NullMeta or a record over Fields
    \* the environment of the component
    phase,                  \* "constructed", "bound" (inputs set), "ready"
    timers,                 \* pending setTimeout callbacks of ngOnChanges
    fetches,                \* GET {id}/metadata requests in flight
    loads,                  \* image id -> pending loadAndCacheImage promises
    writes,                 \* metadata write-back requests in flight
    db,                     \* the DicomData table: image id -> row or NoRow
    files,                  \* image id -> descriptor of its stored file
    images,                 \* ImageService.images: image id -> list entry
    \* history
    session,                \* number of ngOnChanges calls so far
    retries,                \* retryLoad calls so far
    baseline,               \* the current session's baseline fetch:
                            \*   "none" (not issued), "outstanding", "done"
    lastExtract,            \* the latest run of extractDicomMetadata since
                            \*   the selection last changed
    lastFetch,              \* the latest baseline response handled since
                            \*   the selection last changed
    lastWritten,            \* image id -> record of the latest completed write
    counts,                 \* since the selection last changed: 1 once the
                            \*   view has started a load, 1 once it has sent
                            \*   a write-back
    \* the view of the displayed image
    viewport,               \* this.viewport: null, or scale (in hundredths) and
                            \*   translation
    lastZoom,               \* the latest of displayImage, zoomIn, zoomOut and
                            \*   resetView to have changed the viewport
    \* the image list, the gallery and the upload page
    schema,                 \* the DicomData columns: as InitialCreate10 made
                            \*   them, or after FixDicomDataColumns.sql
    fileKinds,              \* file of the batch -> what reading it gives
    uploadPath,             \* the component that started the batch
    uploads,                \* file of the batch -> state of its uploadImage
    forkJoinState,          \* the forkJoin of onFileSelected
    successCount,           \* the counters of uploadDicomFiles
    failCount,
    finished,               \* what finishUpload did
    disk,                   \* files of the batch saved under Uploads/DICOM
    tableIds,               \* ids of the rows of the DicomData table
    nextId,                 \* the next identity value of the table
    subject,                \* ImageService.images.value: the ids listed
    refresh,                \* the GET of refreshImages
    deletes,                \* DELETE requests in flight
    gallerySelected,        \* GalleryComponent.selectedImage: an id, 0 if null
    \* the extraction functions applied to one generated input
    probe,                  \* the input: a dictionary and a field, or a string
    answer                  \* what the applied function returned

componentVars == << selectedImage, element, cornerstoneInitialized, isLoading,
                    isImageLoaded, loadError, dicomMetadata >>
environmentVars == << phase, timers, fetches, loads, writes, db, files, images >>
historyVars == << session, retries, baseline, lastExtract, lastFetch, lastWritten,
                 counts >>
extractorVars == << probe, answer >>
zoomVars == << viewport, lastZoom >>
uploadVars == << schema, fileKinds, uploadPath, uploads, forkJoinState,
                 successCount, failCount, finished, disk, tableIds, nextId >>
listVars == << subject, refresh, deletes, gallerySelected >>
galleryVars == << uploadVars, listVars >>
vars == << componentVars, environmentVars, historyVars, extractorVars, zoomVars,
          galleryVars >>

NoExtract ==
    [ ran |-> FALSE, file |-> 0, selected |-> 0, baseline |-> "none",
      repeat |-> FALSE, threw |-> FALSE, merged |-> FALSE, sent |-> FALSE,
      before |-> NullMeta, after |-> NullMeta, changes |-> NoChanges ]

NoFetch == [ ran |-> FALSE, id |-> 0, selected |-> 0, stale |-> FALSE,
             empty |-> FALSE, wrote |-> FALSE, threw |-> FALSE ]

NoCounts == [ started |-> 0, sent |-> 0 ]

\* this.viewport = null
NoViewport == [none |-> TRUE]

\* the viewport displayImage sets: scale 1.0, translation (0, 0)
FittedViewport == [ scale |-> 100, x |-> 0, y |-> 0 ]

\* a variant of the lower limit that stops at 0
ClampScaleAtZero(scale) == IF scale < 0 THEN 0 ELSE scale

\* if (this.viewport.scale < 0.25) this.viewport.scale = 0.25
ClampScale(scale) == IF scale < 25 THEN 25 ELSE scale

\* the files of one batch, in the order of the file input
BatchFiles == {1, 2}

\* what reading a file gives: parsed elements, a parseDicom error, or a
\* FileReader error
FileKinds == {"dicom", "unparseable", "unreadable"}

\* an uploadImage observable nobody has subscribed to
NoUpload ==
    [ stage |-> "idle", metadata |-> "unset", reached |-> FALSE,
      response |-> "none", id |-> 0, closed |-> FALSE, delivered |-> "no" ]

NoProbe == [ kind |-> "none", field |-> "", dataset |-> << >>, raw |-> "" ]
NoAnswer == [ op |-> "none", resolved |-> "", value |-> JsNull, upload |-> JsNull ]

(***************************************************************************)
(* DicomViewerComponent.                                                   *)
(***************************************************************************)
\* loadAndDisplayImage, called with the component in the given state
loadAndDisplayImage(el, selected, initialized) ==
    IF ~el \/ selected = 0 \/ ~initialized
    THEN /\ loadError' = "notInitialized"
         /\ UNCHANGED << isLoading, loads >>
    ELSE /\ isLoading' = TRUE
         /\ loadError' = "none"
         /\ loads' = [loads EXCEPT ![selected] = @ + 1]

\* ngOnChanges with changes['selectedImage'] set: the parent bound `image`
ngOnChanges(image) ==
    /\ \/ phase = "constructed"
       \/ phase = "ready" /\ session <= MaxSelections
    /\ phase' = IF phase = "constructed" THEN "bound" ELSE phase
    /\ selectedImage' = image
    /\ session' = session + 1
    /\ loadError' = "none"
    /\ isImageLoaded' = FALSE
    /\ IF image # 0 /\ element
       THEN \* fetchMetadataFromApi, then setTimeout(loadAndDisplayImage, 200)
            /\ dicomMetadata' = EmptyMetadata
            /\ fetches' = fetches \cup
                  {[ session |-> session + 1, id |-> image, stage |-> "sent",
                     body |-> EmptyObject, expect |-> lastWritten[image] ]}
            /\ timers' = timers + 1
            /\ baseline' = "outstanding"
       ELSE /\ dicomMetadata' = NullMeta
            /\ baseline' = "none"
            /\ UNCHANGED << fetches, timers >>
    /\ lastExtract' = NoExtract
    /\ lastFetch' = NoFetch
    /\ counts' = NoCounts
    /\ UNCHANGED << element, cornerstoneInitialized, isLoading, loads, writes, db,
                    files, images, retries, lastWritten, extractorVars, zoomVars, galleryVars >>

\* ngAfterViewInit: the template always holds #dicomContainer;
\* cornerstone.enable succeeds or throws
ngAfterViewInit(enabled) ==
    /\ phase = "bound"
    /\ phase' = "ready"
    /\ element' = TRUE
    /\ cornerstoneInitialized' = enabled
    /\ IF selectedImage # 0
       THEN loadAndDisplayImage(TRUE, selectedImage, enabled)
       ELSE /\ loadError' = IF enabled THEN loadError ELSE "initFailed"
            /\ UNCHANGED << isLoading, loads >>
    /\ counts' = [counts EXCEPT !.started = IF loads' # loads THEN 1 ELSE @]
    /\ UNCHANGED << selectedImage, isImageLoaded, dicomMetadata, timers, fetches,
                    writes, db, files, images, session, retries, baseline,
                    lastExtract, lastFetch, lastWritten, extractorVars, zoomVars, galleryVars >>

\* the callback of the 200 ms timer set by ngOnChanges
timerFires ==
    /\ timers > 0
    /\ timers' = timers - 1
    /\ loadAndDisplayImage(element, selectedImage, cornerstoneInitialized)
    /\ counts' = [counts EXCEPT !.started = IF loads' # loads THEN 1 ELSE @]
    /\ UNCHANGED << selectedImage, element, cornerstoneInitialized, isImageLoaded,
                    dicomMetadata, phase, fetches, writes, db, files, images,
                    session, retries, baseline, lastExtract, lastFetch,
                    lastWritten, extractorVars, zoomVars, galleryVars >>

\* retryLoad: the "Try Again" button, shown while loadError is set
retryLoad ==
    /\ phase = "ready"
    /\ loadError # "none"
    /\ selectedImage # 0
    /\ retries < MaxRetries
    /\ retries' = retries + 1
    /\ loadAndDisplayImage(element, selectedImage, cornerstoneInitialized)
    /\ UNCHANGED << selectedImage, element, cornerstoneInitialized, isImageLoaded,
                    dicomMetadata, phase, timers, fetches, writes, db, files,
                    images, session, baseline, lastExtract, lastFetch,
                    lastWritten, counts, extractorVars, zoomVars, galleryVars >>

\* the `then` of loadAndCacheImage for image `id`: displayImage (which
\* succeeds or throws inside its try), extractDicomMetadata, the two flags
loadResolved(id, displayed) ==
    /\ loads[id] > 0
    /\ loads' = [loads EXCEPT ![id] = @ - 1]
    /\ LET r == extractDicomMetadata(dicomMetadata, selectedImage,
                                     << id, files[id] >>)
       IN /\ dicomMetadata' = r.metadata
          /\ writes' = IF r.payload = NoPayload THEN writes
                       ELSE writes \cup {r.payload}
          /\ lastExtract' =
                [ ran |-> TRUE, file |-> id, selected |-> selectedImage,
                  baseline |-> baseline,
                  repeat |-> /\ lastExtract.ran
                             /\ ~lastExtract.threw
                             /\ ~r.threw
                             /\ lastExtract.file = id
                             /\ lastExtract.after = dicomMetadata,
                  threw |-> r.threw, merged |-> r.merged,
                  sent |-> r.payload # NoPayload,
                  before |-> dicomMetadata, after |-> r.metadata,
                  changes |-> r.changes ]
          /\ counts' = [counts EXCEPT
                           !.sent = IF r.payload # NoPayload THEN 1 ELSE @]
    /\ isLoading' = FALSE
    /\ isImageLoaded' = TRUE
    /\ loadError' = IF displayed THEN loadError ELSE "displayFailed"
    /\ viewport' = IF displayed THEN FittedViewport ELSE viewport
    /\ lastZoom' = IF displayed THEN "display" ELSE lastZoom
    /\ UNCHANGED << selectedImage, element, cornerstoneInitialized, phase, timers,
                    fetches, db, files, images, session, retries, baseline,
                    lastFetch, lastWritten, extractorVars, galleryVars >>

\* the `catch` of loadAndCacheImage
loadRejected(id) ==
    /\ loads[id] > 0
    /\ loads' = [loads EXCEPT ![id] = @ - 1]
    /\ isLoading' = FALSE
    /\ loadError' = "loadFailed"
    /\ UNCHANGED << selectedImage, element, cornerstoneInitialized, isImageLoaded,
                    dicomMetadata, phase, timers, fetches, writes, db, files,
                    images, historyVars, extractorVars, zoomVars, galleryVars >>

\* zoomIn, zoomOut and resetView: each returns at once without an element or
\* a viewport
zoomIn ==
    /\ element /\ viewport # NoViewport
    /\ viewport.scale < 100 + 25 * MaxZoomIns
    /\ viewport' = [viewport EXCEPT !.scale = @ + 25]
    /\ lastZoom' = "in"
    /\ UNCHANGED << componentVars, environmentVars, historyVars, extractorVars,
                    galleryVars >>

zoomOut ==
    /\ element /\ viewport # NoViewport
    /\ viewport' = [viewport EXCEPT !.scale = ClampScale(@ - 25)]
    /\ lastZoom' = "out"
    /\ UNCHANGED << componentVars, environmentVars, historyVars, extractorVars,
                    galleryVars >>

resetView ==
    /\ element /\ viewport # NoViewport
    /\ viewport' = [viewport EXCEPT !.scale = 100, !.x = 0, !.y = 0]
    /\ lastZoom' = "reset"
    /\ UNCHANGED << componentVars, environmentVars, historyVars, extractorVars,
                    galleryVars >>

(***************************************************************************)
(* The image list of ImageService, the gallery and the upload page.        *)
(***************************************************************************)
RECURSIVE NewestFirst(_)
\* OrderByDescending(d => d.UploadDate): the rows, latest upload first
NewestFirst(ids) ==
    IF ids = {} THEN << >>
    ELSE LET top == CHOOSE i \in ids : \A j \in ids : j <= i
         IN  << top >> \o NewestFirst(ids \ {top})

\* currentImages.filter(img => img.id !== id)
Without(list, id) == SelectSeq(list, LAMBDA x : x # id)

Listed == { subject[i] : i \in DOMAIN subject }

\* the string columns of the new row are assigned only from parsed metadata
StringColumnsSet(metadata) == metadata = "json"

\* SaveChangesAsync after Add: InitialCreate10 declares the string columns
\* NOT NULL, FixDicomDataColumns.sql makes them nullable
SaveSucceeds(metadata) ==
    schema = "FixDicomDataColumns" \/ StringColumnsSet(metadata)

\* finishUpload(successCount, failCount)
finishUpload(success, fail) ==
    IF success > 0 THEN "navigated"
    ELSE IF fail > 0 THEN "errorShown" ELSE "silent"

\* the observer of uploadDicomFiles gets `next` or `error` for one file
countedUpload(f, kind, next) ==
    LET success == successCount + (IF kind = "next" THEN 1 ELSE 0)
        fail == failCount + (IF kind = "error" THEN 1 ELSE 0)
    IN  /\ uploads' = [next EXCEPT ![f].delivered = kind]
        /\ successCount' = success
        /\ failCount' = fail
        /\ finished' = IF success + fail = Cardinality(BatchFiles)
                          THEN finishUpload(success, fail) ELSE finished
        /\ UNCHANGED << forkJoinState, gallerySelected >>

\* forkJoin gets the value and the completion of one source: once every
\* source has completed it emits the array of their values, and the `next`
\* handler of onFileSelected selects the first of them if it has an id
joinedUpload(f, next) ==
    /\ IF \A g \in BatchFiles : next[g].stage = "done"
          THEN /\ forkJoinState' = "next"
               /\ uploads' = [g \in BatchFiles |->
                                [next[g] EXCEPT !.delivered = "next"]]
               /\ gallerySelected' = IF next[1].id # 0 THEN next[1].id
                                       ELSE gallerySelected
          ELSE /\ uploads' = next
               /\ UNCHANGED << forkJoinState, gallerySelected >>
    /\ UNCHANGED << successCount, failCount, finished >>

\* forkJoin gets the error of one source: it unsubscribes from the others
\* and the `error` handler of onFileSelected runs
failedJoin(f, next) ==
    /\ forkJoinState' = "error"
    /\ uploads' = [g \in BatchFiles |->
                     IF g = f THEN [next[g] EXCEPT !.delivered = "error"]
                     ELSE IF next[g].stage = "done" THEN next[g]
                     ELSE [next[g] EXCEPT !.closed = TRUE]]
    /\ UNCHANGED << successCount, failCount, finished, gallerySelected >>

\* GalleryComponent.onFileSelected: forkJoin subscribes to uploadImage of
\* every file, and every file starts being read
onFileSelected ==
    /\ uploadPath = "none"
    /\ uploadPath' = "gallery"
    /\ forkJoinState' = "active"
    /\ uploads' = [f \in BatchFiles |-> [uploads[f] EXCEPT !.stage = "reading"]]
    /\ UNCHANGED << componentVars, environmentVars, historyVars, extractorVars,
                    zoomVars, listVars, schema, fileKinds, successCount,
                    failCount, finished, disk, tableIds, nextId >>

\* UploadComponent.uploadDicomFiles: one subscription per file
uploadDicomFiles ==
    /\ uploadPath = "none"
    /\ uploadPath' = "upload"
    /\ successCount' = 0
    /\ failCount' = 0
    /\ uploads' = [f \in BatchFiles |-> [uploads[f] EXCEPT !.stage = "reading"]]
    /\ UNCHANGED << componentVars, environmentVars, historyVars, extractorVars,
                    zoomVars, listVars, schema, fileKinds, forkJoinState,
                    finished, disk, tableIds, nextId >>

\* the FileReader of parseMetadataFromFile finishes: an error goes to the
\* subscriber; otherwise the file is posted, with its metadata if parseDicom
\* accepted it; a subscriber that has gone gets nothing and posts nothing
fileRead(f) ==
    /\ uploads[f].stage = "reading"
    /\ IF uploads[f].closed
          THEN /\ uploads' = [uploads EXCEPT ![f].stage = "done"]
               /\ UNCHANGED << forkJoinState, successCount, failCount, finished,
                               gallerySelected >>
          ELSE IF fileKinds[f] = "unreadable"
          THEN LET next == [uploads EXCEPT ![f].stage = "done"]
               IN  IF uploadPath = "gallery" THEN failedJoin(f, next)
                   ELSE countedUpload(f, "error", next)
          ELSE /\ uploads' = [uploads EXCEPT ![f].stage = "posted",
                                 ![f].metadata = IF fileKinds[f] = "dicom"
                                                   THEN "json" ELSE "none"]
               /\ UNCHANGED << forkJoinState, successCount, failCount, finished,
                               gallerySelected >>
    /\ UNCHANGED << componentVars, environmentVars, historyVars, extractorVars,
                    zoomVars, schema, fileKinds, uploadPath, disk, tableIds,
                    nextId, subject, refresh, deletes >>

\* ImageController.UploadWithMetadata, or no answer from the server at all
serverUpload(f, reachable) ==
    /\ uploads[f].stage = "posted"
    /\ IF ~reachable
          THEN /\ uploads' = [uploads EXCEPT ![f].stage = "served",
                                              ![f].response = "error"]
               /\ UNCHANGED << disk, tableIds, nextId >>
          ELSE /\ disk' = disk \cup {f}
               /\ IF SaveSucceeds(uploads[f].metadata)
                     THEN /\ tableIds' = tableIds \cup {nextId}
                          /\ nextId' = nextId + 1
                          /\ uploads' = [uploads EXCEPT ![f].stage = "served",
                                            ![f].reached = TRUE,
                                            ![f].response = "ok",
                                            ![f].id = nextId]
                     ELSE /\ uploads' = [uploads EXCEPT ![f].stage = "served",
                                            ![f].reached = TRUE,
                                            ![f].response = "error"]
                          /\ UNCHANGED << tableIds, nextId >>
    /\ UNCHANGED << componentVars, environmentVars, historyVars, extractorVars,
                    zoomVars, listVars, schema, fileKinds, uploadPath,
                    forkJoinState, successCount, failCount, finished >>

\* the answer to the POST reaches uploadImage: tap appends the new image,
\* catchError turns a failure into a value, and the value goes to the
\* subscriber; a request whose subscriber has gone was aborted
uploadResponse(f) ==
    /\ uploads[f].stage = "served"
    /\ LET next == [uploads EXCEPT ![f].stage = "done"]
       IN  IF uploads[f].closed
             THEN /\ uploads' = next
                  /\ UNCHANGED << subject, forkJoinState, successCount,
                                  failCount, finished, gallerySelected >>
             ELSE /\ subject' = IF uploads[f].response = "ok"
                                  THEN Append(subject, uploads[f].id)
                                  ELSE subject
                  /\ IF uploadPath = "gallery" THEN joinedUpload(f, next)
                     ELSE countedUpload(f, "next", next)
    /\ UNCHANGED << componentVars, environmentVars, historyVars, extractorVars,
                    zoomVars, schema, fileKinds, uploadPath, disk, tableIds,
                    nextId, refresh, deletes >>

\* ImageController.GetAll answers the GET of refreshImages, or it fails
serverGetAll(ok) ==
    /\ refresh.stage = "sent"
    /\ refresh' = [ stage |-> "served", ok |-> ok,
                    body |-> IF ok THEN NewestFirst(tableIds) ELSE << >> ]
    /\ UNCHANGED << componentVars, environmentVars, historyVars, extractorVars,
                    zoomVars, uploadVars, subject, deletes, gallerySelected >>

\* the answer reaches refreshImages: tap replaces the list
refreshResponse ==
    /\ refresh.stage = "served"
    /\ subject' = IF refresh.ok THEN refresh.body ELSE subject
    /\ refresh' = [refresh EXCEPT !.stage = "done"]
    /\ UNCHANGED << componentVars, environmentVars, historyVars, extractorVars,
                    zoomVars, uploadVars, deletes, gallerySelected >>

\* GalleryComponent.selectImage on a listed image
selectImage(id) ==
    /\ id \in Listed
    /\ gallerySelected' = id
    /\ UNCHANGED << componentVars, environmentVars, historyVars, extractorVars,
                    zoomVars, uploadVars, subject, refresh, deletes >>

\* GalleryComponent.deleteImage on a listed image, confirmed
deleteImage(id) ==
    /\ id \in Listed
    /\ \A d \in deletes : d.id # id
    /\ deletes' = deletes \cup {[ id |-> id, stage |-> "sent", ok |-> FALSE ]}
    /\ UNCHANGED << componentVars, environmentVars, historyVars, extractorVars,
                    zoomVars, uploadVars, subject, refresh, gallerySelected >>

\* ImageController.DeleteImage: NotFound without the row; or no answer
serverDelete(d, reachable) ==
    /\ d \in deletes /\ d.stage = "sent"
    /\ LET ok == reachable /\ d.id \in tableIds
       IN  /\ deletes' = (deletes \ {d})
                            \cup {[ d EXCEPT !.stage = "answered", !.ok = ok ]}
           /\ tableIds' = IF ok THEN tableIds \ {d.id} ELSE tableIds
    /\ UNCHANGED << componentVars, environmentVars, historyVars, extractorVars,
                    zoomVars, subject, refresh, gallerySelected, schema,
                    fileKinds, uploadPath, uploads, forkJoinState, successCount,
                    failCount, finished, disk, nextId >>

\* the answer to the DELETE: tap removes the image, catchError turns a
\* failure into a value, and the `next` handler of the gallery runs on the
\* value
deleteResponse(d) ==
    /\ d \in deletes /\ d.stage = "answered"
    /\ deletes' = deletes \ {d}
    /\ subject' = IF d.ok THEN Without(subject, d.id) ELSE subject
    /\ gallerySelected' = IF gallerySelected = d.id THEN 0 ELSE gallerySelected
    /\ UNCHANGED << componentVars, environmentVars, historyVars, extractorVars,
                    zoomVars, uploadVars, refresh >>

\* the fields the `next` handler of fetchMetadataFromApi assigns: the keys of
\* the response whose value is not undefined, null or ''
AssignedFromApi(body) ==
    { f \in DbFields \cap DOMAIN body :
        body[f].t \notin {"undef", "null"} /\ body[f] # Str("") }

\* the record the handler leaves: each assigned field takes the response's
\* value, the others keep theirs
ApplyResponse(record, body) ==
    LET assigned == AssignedFromApi(body)
    IN [g \in Fields |-> IF g \in assigned THEN body[g] ELSE record[g]]

\* the `next` handler of getImageMetadata(...).subscribe in fetchMetadataFromApi:
\* `{}` returns early; an assignment to a null record throws
fetchResponse(f) ==
    /\ f \in fetches
    /\ f.stage = "replied"
    /\ fetches' = fetches \ {f}
    /\ LET assigned == IF f.body = EmptyObject THEN {} ELSE AssignedFromApi(f.body)
           throws == assigned # {} /\ dicomMetadata = NullMeta
       IN /\ dicomMetadata' =
                IF assigned = {} \/ throws THEN dicomMetadata
                ELSE ApplyResponse(dicomMetadata, f.body)
          /\ lastFetch' =
                [ ran |-> TRUE, id |-> f.id, selected |-> selectedImage,
                  stale |-> f.session # session, empty |-> f.body = EmptyObject,
                  wrote |-> assigned # {} /\ ~throws, threw |-> throws ]
    /\ baseline' = IF f.session = session THEN "done" ELSE baseline
    /\ UNCHANGED << selectedImage, element, cornerstoneInitialized, isLoading,
                    isImageLoaded, loadError, phase, timers, loads, writes, db,
                    files, images, session, retries, lastExtract, lastWritten,
                    counts, extractorVars, zoomVars, galleryVars >>

(***************************************************************************)
(* ImageController, answering the requests in flight.                      *)
(***************************************************************************)
\* GET {id}/metadata is answered (`ok`) or fails on the way; a 404, a 500
\* or a failed request reaches the component as `{}`
serverGetMetadata(f, ok) ==
    /\ f \in fetches
    /\ f.stage = "sent"
    /\ fetches' = (fetches \ {f}) \cup
          {[f EXCEPT !.stage = "replied",
                     !.body = IF ~ok \/ db[f.id] = NoRow THEN EmptyObject
                              ELSE GetMetadata(db[f.id])]}
    /\ UNCHANGED << componentVars, phase, timers, loads, writes, db, files,
                    images, historyVars, extractorVars, zoomVars, galleryVars >>

\* the request of updateImageMetadata is answered: UpdateMetadata runs if
\* the route matches the method, else the request is refused (405); the
\* subscribers of saveMetadataToServer only log the answer
metadataWrite(w) ==
    /\ w \in writes
    /\ writes' = writes \ {w}
    /\ db' = IF WriteSucceeds(w, db)
             THEN [db EXCEPT ![w.imageId] = UpdateMetadata(@, w.metadata)]
             ELSE db
    /\ images' = IF NotifiesNext(WriteSucceeds(w, db)) /\ images[w.imageId] # NoEntry
                 THEN [images EXCEPT ![w.imageId] = ListUpdate(@, w.metadata)]
                 ELSE images
    /\ lastWritten' = [lastWritten EXCEPT ![w.imageId] = w.metadata]
    /\ UNCHANGED << componentVars, phase, timers, fetches, loads, files,
                    session, retries, baseline, lastExtract, lastFetch, counts,
                    extractorVars, zoomVars, galleryVars >>

(***************************************************************************)
(* The viewer with its server: two stored images; the server answers every *)
(* read.                                                                   *)
(***************************************************************************)
InitComponent ==
    /\ selectedImage = 0
    /\ element = FALSE
    /\ cornerstoneInitialized = FALSE
    /\ isLoading = FALSE
    /\ isImageLoaded = FALSE
    /\ loadError = "none"
    /\ dicomMetadata = NullMeta

InitHistory ==
    /\ session = 0
    /\ retries = 0
    /\ baseline = "none"
    /\ lastExtract = NoExtract
    /\ lastFetch = NoFetch
    /\ lastWritten = [i \in Images |-> NullMeta]
    /\ counts = NoCounts

\* nothing is being probed
InitExtractor ==
    /\ probe = NoProbe
    /\ answer = NoAnswer

\* nothing has been displayed
InitZoom ==
    /\ viewport = NoViewport
    /\ lastZoom = "none"

\* no batch has been started
InitUpload ==
    /\ uploadPath = "none"
    /\ uploads = [f \in BatchFiles |-> NoUpload]
    /\ forkJoinState = "idle"
    /\ successCount = 0
    /\ failCount = 0
    /\ finished = "no"
    /\ disk = {}
    /\ gallerySelected = 0
    /\ deletes = {}

\* the gallery of a viewer session: the list has been fetched
InitGallery ==
    /\ InitUpload
    /\ schema = "InitialCreate10"
    /\ fileKinds = [f \in BatchFiles |-> "dicom"]
    /\ tableIds = {1}
    /\ nextId = 2
    /\ subject = << 1 >>
    /\ refresh = [ stage |-> "done", ok |-> TRUE, body |-> << 1 >> ]

\* image 1: a fully tagged file, stored with other values in every column;
\* image 2: a file with patient tags only, stored with all columns NULL
Init ==
    /\ InitComponent
    /\ InitHistory
    /\ phase = "constructed"
    /\ timers = 0
    /\ fetches = {}
    /\ loads = [i \in Images |-> 0]
    /\ writes = {}
    /\ db = [i \in Images |-> IF i = 1 THEN MakeRow(2, 2, Fields)
                              ELSE MakeRow(0, 0, Fields)]
    /\ files = [i \in Images |->
                  IF i = 1
                  THEN [hasData |-> TRUE, text |-> 1, num |-> 1, mask |-> Fields]
                  ELSE [hasData |-> TRUE, text |-> 1, num |-> 0, mask |-> PatientGroup]]
    /\ images = [i \in Images |-> ListEntry(db[i])]
    /\ InitExtractor
    /\ InitZoom
    /\ InitGallery

Next ==
    \/ \E image \in {0} \cup Images : ngOnChanges(image)
    \/ \E enabled \in BOOLEAN : ngAfterViewInit(enabled)
    \/ timerFires
    \/ \E id \in Images, displayed \in BOOLEAN : loadResolved(id, displayed)
    \/ \E id \in Images : loadRejected(id)
    \/ \E f \in fetches : serverGetMetadata(f, TRUE)
    \/ \E f \in fetches : fetchResponse(f)
    \/ \E w \in writes : metadataWrite(w)

Spec == Init /\ [][Next]_vars

(***************************************************************************)
(* Successive sessions of one image: image 1 is selected, deselected and   *)
(* selected again; its stored row and its file vary; the server answers    *)
(* every read.                                                             *)
(***************************************************************************)
StoredRows == { MakeRow(2, 2, Fields), MakeRow(2, 1, PatientGroup) }
StoredFiles ==
    { [hasData |-> TRUE, text |-> 1, num |-> 1, mask |-> Fields],
      [hasData |-> TRUE, text |-> Irregular, num |-> Irregular, mask |-> Fields] }

SessionInit ==
    /\ InitComponent
    /\ InitHistory
    /\ phase = "constructed"
    /\ timers = 0
    /\ fetches = {}
    /\ loads = [i \in Images |-> 0]
    /\ writes = {}
    /\ \E row \in StoredRows :
          db = [i \in Images |-> IF i = 1 THEN row ELSE NoRow]
    /\ \E file \in StoredFiles : files = [i \in Images |-> file]
    /\ images = [i \in Images |-> ListEntry(db[i])]
    /\ InitExtractor
    /\ InitZoom
    /\ InitGallery

SessionNext ==
    \/ \E image \in {0, 1} : ngOnChanges(image)
    \/ \E enabled \in BOOLEAN : ngAfterViewInit(enabled)
    \/ timerFires
    \/ \E displayed \in BOOLEAN : loadResolved(1, displayed)
    \/ loadRejected(1)
    \/ \E f \in fetches : serverGetMetadata(f, TRUE)
    \/ \E f \in fetches : fetchResponse(f)
    \/ \E w \in writes : metadataWrite(w)

SessionSpec == SessionInit /\ [][SessionNext]_vars

(***************************************************************************)
(* The same sessions with a server whose reads may fail: each GET of the   *)
(* metadata is answered or fails on the way.                               *)
(***************************************************************************)
OutageNext ==
    \/ \E image \in {0, 1} : ngOnChanges(image)
    \/ \E enabled \in BOOLEAN : ngAfterViewInit(enabled)
    \/ timerFires
    \/ \E displayed \in BOOLEAN : loadResolved(1, displayed)
    \/ loadRejected(1)
    \/ \E f \in fetches, ok \in BOOLEAN : serverGetMetadata(f, ok)
    \/ \E f \in fetches : fetchResponse(f)
    \/ \E w \in writes : metadataWrite(w)

OutageSpec == SessionInit /\ [][OutageNext]_vars

(***************************************************************************)
(* A session left to run: the sessions of one image whose file carries a   *)
(* dataset or none, where everything the component has issued completes:   *)
(* the view is initialised, every timer fires, every file load resolves or *)
(* rejects, every request is answered and every answer is handled.         *)
(***************************************************************************)
\* a fully tagged file, and a file cornerstone loads without a dataset
SettleFiles ==
    { [hasData |-> TRUE, text |-> 1, num |-> 1, mask |-> Fields],
      [hasData |-> FALSE, text |-> 0, num |-> 0, mask |-> Fields] }

SettleInit ==
    /\ InitComponent
    /\ InitHistory
    /\ phase = "constructed"
    /\ timers = 0
    /\ fetches = {}
    /\ loads = [i \in Images |-> 0]
    /\ writes = {}
    /\ db = [i \in Images |-> IF i = 1 THEN MakeRow(2, 2, Fields) ELSE NoRow]
    /\ \E file \in SettleFiles : files = [i \in Images |-> file]
    /\ images = [i \in Images |-> ListEntry(db[i])]
    /\ InitExtractor
    /\ InitZoom
    /\ InitGallery

\* the promise of loadAndCacheImage settles
LoadCompletes == loadRejected(1) \/ \E displayed \in BOOLEAN : loadResolved(1, displayed)

\* the browser runs every callback that is due, and the server answers
SettleFairness ==
    /\ WF_vars(\E enabled \in BOOLEAN : ngAfterViewInit(enabled))
    /\ WF_vars(timerFires)
    /\ WF_vars(LoadCompletes)
    /\ WF_vars(\E f \in fetches, ok \in BOOLEAN : serverGetMetadata(f, ok))
    /\ WF_vars(\E f \in fetches : fetchResponse(f))
    /\ WF_vars(\E w \in writes : metadataWrite(w))

SettleSpec == SettleInit /\ [][OutageNext]_vars /\ SettleFairness

(***************************************************************************)
(* One extraction and its retries, over every stored row and file: image 1 *)
(* is selected, its baseline fetch has been answered (or was never         *)
(* issued, leaving the record null) and its file is being loaded.          *)
(***************************************************************************)
\* the rows an upload can have stored: integer columns hold integers
Rows == { MakeRow(text, num, mask) :
            text \in Selectors, num \in 0..MaxVal, mask \in Masks }

\* the files: one without a dataset, and every combination of tags
Files ==
    { d \in FileDescriptors :
        ~d.hasData => (d.text = 0 /\ d.num = 0 /\ d.mask = Fields) }

MergeInit ==
    /\ selectedImage = 1
    /\ element = TRUE
    /\ cornerstoneInitialized = TRUE
    /\ isLoading = TRUE
    /\ isImageLoaded = FALSE
    /\ loadError = "none"
    /\ phase = "ready"
    /\ timers = 0
    /\ fetches = {}
    /\ loads = [i \in Images |-> IF i = 1 THEN 1 ELSE 0]
    /\ writes = {}
    /\ \E row \in Rows :
          /\ db = [i \in Images |-> IF i = 1 THEN row ELSE NoRow]
          /\ \/ dicomMetadata = NullMeta /\ baseline = "none"
             \/ /\ dicomMetadata = ApplyResponse(EmptyMetadata, GetMetadata(row))
                /\ baseline = "done"
    /\ \E file \in Files : files = [i \in Images |-> file]
    /\ session = 1
    /\ retries = 0
    /\ lastExtract = NoExtract
    /\ lastFetch = NoFetch
    /\ lastWritten = [i \in Images |-> NullMeta]
    /\ counts = [started |-> 1, sent |-> 0]
    /\ images = [i \in Images |-> ListEntry(db[i])]
    /\ InitExtractor
    /\ InitZoom
    /\ InitGallery

MergeNext ==
    \/ \E displayed \in BOOLEAN : loadResolved(1, displayed)
    \/ loadRejected(1)
    \/ retryLoad
    \/ \E w \in writes : metadataWrite(w)

MergeSpec == MergeInit /\ [][MergeNext]_vars

(***************************************************************************)
(* The zoom controls: image 1 is selected and its file is being loaded;    *)
(* once it is displayed the view is zoomed in, zoomed out and reset.       *)
(***************************************************************************)
ZoomInit ==
    /\ selectedImage = 1
    /\ element = TRUE
    /\ cornerstoneInitialized = TRUE
    /\ isLoading = TRUE
    /\ isImageLoaded = FALSE
    /\ loadError = "none"
    /\ dicomMetadata = ApplyResponse(EmptyMetadata, GetMetadata(MakeRow(2, 2, Fields)))
    /\ phase = "ready"
    /\ timers = 0
    /\ fetches = {}
    /\ loads = [i \in Images |-> IF i = 1 THEN 1 ELSE 0]
    /\ writes = {}
    /\ db = [i \in Images |-> IF i = 1 THEN MakeRow(2, 2, Fields) ELSE NoRow]
    /\ files = [i \in Images |->
                  [hasData |-> TRUE, text |-> 1, num |-> 1, mask |-> Fields]]
    /\ images = [i \in Images |-> ListEntry(db[i])]
    /\ session = 1
    /\ retries = 0
    /\ baseline = "done"
    /\ lastExtract = NoExtract
    /\ lastFetch = NoFetch
    /\ lastWritten = [i \in Images |-> NullMeta]
    /\ counts = [started |-> 1, sent |-> 0]
    /\ InitExtractor
    /\ InitZoom
    /\ InitGallery

ZoomNext ==
    \/ \E displayed \in BOOLEAN : loadResolved(1, displayed)
    \/ loadRejected(1)
    \/ retryLoad
    \/ zoomIn
    \/ zoomOut
    \/ resetView
    \/ \E w \in writes : metadataWrite(w)

ZoomSpec == ZoomInit /\ [][ZoomNext]_vars

(***************************************************************************)
(* The gallery and the upload page: ImageService has just been constructed *)
(* and its GET of the list is in flight; one image is stored; a batch of   *)
(* files is uploaded from either page, and listed images are selected and  *)
(* deleted.                                                                *)
(***************************************************************************)
GalleryInit ==
    /\ InitComponent
    /\ InitHistory
    /\ InitExtractor
    /\ InitZoom
    /\ InitUpload
    /\ phase = "constructed"
    /\ timers = 0
    /\ fetches = {}
    /\ loads = [i \in Images |-> 0]
    /\ writes = {}
    /\ db = [i \in Images |-> NoRow]
    /\ files = [i \in Images |->
                  [hasData |-> FALSE, text |-> 0, num |-> 0, mask |-> Fields]]
    /\ images = [i \in Images |-> NoEntry]
    /\ schema \in {"InitialCreate10", "FixDicomDataColumns"}
    /\ fileKinds \in [BatchFiles -> FileKinds]
    /\ tableIds = {1}
    /\ nextId = 2
    /\ subject = << >>
    /\ refresh = [ stage |-> "sent", ok |-> FALSE, body |-> << >> ]

GalleryNext ==
    \/ onFileSelected
    \/ uploadDicomFiles
    \/ \E f \in BatchFiles : fileRead(f)
    \/ \E f \in BatchFiles, reachable \in BOOLEAN : serverUpload(f, reachable)
    \/ \E f \in BatchFiles : uploadResponse(f)
    \/ \E ok \in BOOLEAN : serverGetAll(ok)
    \/ refreshResponse
    \/ \E id \in Listed : selectImage(id)
    \/ \E id \in Listed : deleteImage(id)
    \/ \E d \in deletes, reachable \in BOOLEAN : serverDelete(d, reachable)
    \/ \E d \in deletes : deleteResponse(d)

GallerySpec == GalleryInit /\ [][GalleryNext]_vars

(***************************************************************************)
(* The extraction functions on their own: a dictionary and a field, or a   *)
(* raw date string, is drawn, and one of the functions is applied to it.   *)
(***************************************************************************)
ExtractorInit ==
    /\ InitComponent
    /\ InitHistory
    /\ phase = "constructed"
    /\ timers = 0
    /\ fetches = {}
    /\ loads = [i \in Images |-> 0]
    /\ writes = {}
    /\ db = [i \in Images |-> NoRow]
    /\ files = [i \in Images |->
                  [hasData |-> FALSE, text |-> 0, num |-> 0, mask |-> Fields]]
    /\ images = [i \in Images |-> NoEntry]
    /\ \/ \E f \in ProbeFields : \E d \in Datasets(f) :
             probe = [kind |-> "tags", field |-> f, dataset |-> d, raw |-> ""]
       \/ \E raw \in RawDates :
             probe = [kind |-> "date", field |-> "studyDate", dataset |-> << >>,
                      raw |-> raw]
    /\ answer = NoAnswer
    /\ InitZoom
    /\ InitGallery

\* the viewer reads the probed field: getTag(tag) || getTag(alias), and the
\* value the literal of extractDicomMetadata makes of it
viewerExtracts ==
    /\ probe.kind = "tags"
    /\ answer = NoAnswer
    /\ answer' = [ op |-> "viewer",
                   resolved |-> TagOrAlias(probe.dataset, probe.field),
                   value |-> ExtractedMetadata(ProbeImage(probe.dataset))[probe.field],
                   upload |-> JsNull ]
    /\ UNCHANGED << componentVars, environmentVars, historyVars, probe, zoomVars, galleryVars >>

\* the upload reads the probed field: its getTag(tag), and the value the
\* literal of parseMetadataFromFile makes of it
uploadParses ==
    /\ probe.kind = "tags"
    /\ answer = NoAnswer
    /\ answer' = [ op |-> "upload",
                   resolved |-> uploadGetTag(probe.dataset, UploadTagOf[probe.field]),
                   value |-> JsNull,
                   upload |-> parseMetadataFromFile(probe.dataset, UploadName)[probe.field] ]
    /\ UNCHANGED << componentVars, environmentVars, historyVars, probe, zoomVars, galleryVars >>

\* both extractors read the probed field from the same dictionary
bothExtract ==
    /\ probe.kind = "tags"
    /\ answer = NoAnswer
    /\ answer' = [ op |-> "both", resolved |-> "",
                   value |-> ExtractedMetadata(ProbeImage(probe.dataset))[probe.field],
                   upload |-> parseMetadataFromFile(probe.dataset, UploadName)[probe.field] ]
    /\ UNCHANGED << componentVars, environmentVars, historyVars, probe, zoomVars, galleryVars >>

\* formatDate, in its two copies, applied to the raw string
formatsDate ==
    /\ probe.kind = "date"
    /\ answer = NoAnswer
    /\ answer' = [ op |-> "formatDate", resolved |-> "",
                   value |-> Str(formatDate(probe.raw)),
                   upload |-> Str(uploadFormatDate(probe.raw)) ]
    /\ UNCHANGED << componentVars, environmentVars, historyVars, probe, zoomVars, galleryVars >>

ExtractorNext ==
    \/ viewerExtracts
    \/ uploadParses
    \/ bothExtract
    \/ formatsDate

ExtractorSpec == ExtractorInit /\ [][ExtractorNext]_vars

(***************************************************************************)
(* Properties.                                                             *)
(***************************************************************************)
\* the candidate of the latest extraction: what it read from the file
Candidate == ExtractedTable[<< lastExtract.file, files[lastExtract.file] >>]

\* the latest extraction merged a candidate into a baseline record
Merged == lastExtract.ran /\ lastExtract.merged

\* the record the baseline fetch of image 1 leaves
FetchedBaseline == ApplyResponse(EmptyMetadata, GetMetadata(db[1]))

\* C1: the merge is fill-only: a field of the merged record keeps the
\* baseline's value unless that is the empty sentinel ('' or 0), and takes
\* the candidate's value only then.
C1_FillOnly ==
    Merged =>
        \A f \in Fields :
            lastExtract.after[f] =
                IF lastExtract.before[f] # EmptyMetadata[f]
                THEN lastExtract.before[f]
                ELSE Candidate[f]

\* C2: extractDicomMetadata runs only once the baseline fetch of the
\* session has been issued and answered.
C2_BaselineBeforeExtraction ==
    lastExtract.ran => lastExtract.baseline = "done"

\* C3: a load started for one image that completes while another image (or
\* none) is selected is discarded: the record stays as it is and nothing is
\* sent to the server.
C3_StaleLoadDiscarded ==
    (lastExtract.ran /\ lastExtract.file # lastExtract.selected) =>
        /\ lastExtract.after = lastExtract.before
        /\ ~lastExtract.sent

\* a field of a stored row holds a non-empty value
Persisted(row, g) == row # NoRow /\ row[g] \notin {JsNull, Str(""), Num(0)}

C5_StaleResponseDiscarded ==
    (lastFetch.ran /\ lastFetch.id # lastFetch.selected) => ~lastFetch.wrote

\* C6: a baseline fetch issued after a write-back of the image has completed
\* is answered with the written record in every metadata field.
C6_FetchReturnsWritten ==
    \A f \in fetches :
        (f.stage = "replied" /\ f.expect # NullMeta) =>
            /\ f.body # EmptyObject
            /\ \A g \in DbFields : f.body[g] = f.expect[g]

\* C7: an extraction repeated on the same file, with the record left by the
\* first one, leaves that record as it is.
C7_Idempotent ==
    lastExtract.repeat => lastExtract.after = lastExtract.before

\* a retry has merged the file a second time, the first merge having
\* changed the fetched baseline
C7_RepeatedMerge ==
    /\ lastExtract.repeat
    /\ lastExtract.merged
    /\ retries > 0
    /\ baseline = "done"
    /\ lastExtract.before # FetchedBaseline
    /\ FetchedBaseline # EmptyMetadata

\* C8: merging a candidate into the all-empty record yields the candidate
\* in every field.
C8_EmptyBaselineYieldsCandidate ==
    (Merged /\ lastExtract.before = EmptyMetadata) =>
        lastExtract.after = Candidate

\* no tag of the file of the latest extraction resolves
NoTagResolved ==
    /\ lastExtract.ran
    /\ ~lastExtract.threw
    /\ \A f \in TagFields : Candidate[f] = EmptyMetadata[f]

C10_DeltaIsDifference ==
    Merged =>
        \A f \in Fields :
            /\ (f \in DOMAIN lastExtract.changes) <=>
                  (lastExtract.after[f] # lastExtract.before[f])
            /\ (f \in DOMAIN lastExtract.changes) =>
                  /\ lastExtract.changes[f].from = lastExtract.before[f]
                  /\ lastExtract.changes[f].to = lastExtract.after[f]

\* a step in which the view (ngAfterViewInit or a delay timer, retryLoad
\* excluded) starts a load of a file
LoadStarted == retries' = retries /\ \E i \in Images : loads'[i] > loads[i]

\* a step that queues a metadata write-back
PayloadSent == writes' \ writes # {}

\* C11: each selection owns one session: the view starts a load of the file
\* only if it has started none since the selection last changed, and sends a
\* metadata write-back only if it has sent none since then
C11_OneSessionPerSelection ==
    [][/\ LoadStarted => counts.started = 0
       /\ PayloadSent => counts.sent = 0]_vars

\* C12: when the response to the baseline fetch of the current selection is
\* the `{}` of a failed read (HTTP error, or no stored record), the handler
\* raises nothing, the record the extraction will merge into is the all-empty
\* record, and the load of the file is still pending or has been started
C12_FailedReadGivesEmptyBaseline ==
    (lastFetch.ran /\ ~lastFetch.stale /\ lastFetch.empty) =>
        /\ ~lastFetch.threw
        /\ ~lastExtract.ran => dicomMetadata = EmptyMetadata
        /\ timers > 0 \/ counts.started > 0 \/ ~cornerstoneInitialized

\* C13: when the request of a metadata write-back fails, the step that
\* handles the failure changes neither the viewer's record nor isImageLoaded
\* nor loadError, and leaves the client's image list as it was
C13_FailedWriteLeavesState ==
    [][\A w \in writes \ writes' :
          ~WriteSucceeds(w, db) =>
              /\ dicomMetadata' = dicomMetadata
              /\ isImageLoaded' = isImageLoaded
              /\ loadError' = loadError
              /\ images' = images]_vars

\* a write-back of image 1 has failed, and it carried a patient name other
\* than the one the image list shows
C13_UnsavedValuesNotListed ==
    /\ lastWritten[1] # NullMeta
    /\ ~WriteSucceeds([imageId |-> 1, metadata |-> lastWritten[1]], db)
    /\ images[1] # NoEntry
    /\ images[1]["patientName"] # lastWritten[1]["patientName"]
    /\ dicomMetadata = lastWritten[1]

\* C14: no callback of a session raises an uncaught exception: in particular
\* the handler of a baseline response never throws, whatever the selection
\* has become by the time the response arrives (the exceptions of the
\* extraction are caught inside extractDicomMetadata)
C14_NoCallbackThrows == ~lastFetch.threw

\* C15: every record of a session has all the fields of the table: the
\* record an extraction starts from is not null and lacks no field, neither
\* does the candidate it builds, the record shown for a loaded image, or
\* the payload of any write-back
C15_RecordFullyPopulated ==
    /\ (lastExtract.ran /\ ~lastExtract.threw) =>
          /\ DOMAIN lastExtract.before = Fields
          /\ DOMAIN Candidate = Fields
    /\ (selectedImage # 0 /\ isImageLoaded) => DOMAIN dicomMetadata = Fields
    /\ \A w \in writes : DOMAIN w.metadata = Fields

\* the items of an array written out with one backslash between consecutive
\* items
RECURSIVE Backslashed(_)
Backslashed(items) ==
    IF items = << >> THEN ""
    ELSE IF Len(items) = 1 THEN items[1]
    ELSE items[1] \o "\\" \o Backslashed(Tail(items))

\* what reading the element filed under key k yields: its text (for an
\* array, its items written out), or '' when there is no such element, its
\* text is empty, or the read raises
Reads(dataset, k) ==
    IF k \notin DOMAIN dataset THEN ""
    ELSE IF dataset[k].value.t = "str" THEN dataset[k].value.s
    ELSE IF dataset[k].value.t = "arr" THEN Backslashed(dataset[k].value.items)
    ELSE ""

\* the same, falling back on the 'x'-prefixed key when the dictionary has no
\* element under k and k does not begin with 'x'
ReadsWithPrefix(dataset, k) ==
    IF k \in DOMAIN dataset THEN Reads(dataset, k)
    ELSE IF ~startsWith(k, "x") THEN Reads(dataset, "x" \o k)
    ELSE ""

\* bare, 'x'-prefixed, lower-cased, upper-cased, parentheses stripped
SpellingsOf(k) == << k, "x" \o k, toLowerCase(k), toUpperCase(k), StripParens(k) >>

\* the value of the first spelling of the list whose lookup is not empty
FirstResolving(dataset, spellings, Lookup(_, _)) ==
    LET hits == { i \in 1..Len(spellings) : Lookup(dataset, spellings[i]) # "" }
    IN IF hits = {} THEN ""
       ELSE Lookup(dataset, spellings[CHOOSE i \in hits : \A j \in hits : i <= j])

\* a resolver has been applied to the drawn dictionary
Resolved == answer.op \in {"viewer", "upload"}

\* C16 (as stated): the viewer's resolver returns the value of the first of
\* the spellings bare tag, 'x'-prefixed, lower-cased, upper-cased,
\* parentheses stripped, keyword alias under which the dictionary holds a
\* non-empty element, and '' exactly when it holds none under any of them
C16_FirstListedSpellingWins ==
    answer.op = "viewer" =>
        answer.resolved =
            FirstResolving(probe.dataset,
                SpellingsOf(TagOf[probe.field]) \o << AliasOf[probe.field] >>, Reads)

\* C16 (amended): the viewer's resolver tries the five spellings of the tag
\* and then the same five spellings of the keyword alias; each is looked up
\* as written and, when the dictionary has no element under it, under its
\* 'x'-prefixed form; it returns the first non-empty value so found, and ''
\* exactly when there is none
C16_FirstTriedSpellingWins ==
    answer.op = "viewer" =>
        answer.resolved =
            FirstResolving(probe.dataset,
                SpellingsOf(TagOf[probe.field]) \o SpellingsOf(AliasOf[probe.field]),
                ReadsWithPrefix)

\* the viewer resolved a field filed only under 'x' and the lower-cased tag,
\* the key dicom-parser uses, which is none of the listed spellings
C16_ResolvedUnderParserKey ==
    /\ answer.op = "viewer"
    /\ probe.field = "studyInstanceUid"
    /\ DOMAIN probe.dataset = { "x" \o toLowerCase(TagOf["studyInstanceUid"]) }
    /\ answer.resolved # ""

\* C17: from a dictionary that holds a field only under its keyword alias,
\* every path that builds a record resolves the field to that element's value
C17_AliasOnlyResolves ==
    ( /\ Resolved
      /\ DOMAIN probe.dataset = { AliasOf[probe.field] }
      /\ Reads(probe.dataset, AliasOf[probe.field]) # "" )
    => answer.resolved = Reads(probe.dataset, AliasOf[probe.field])

\* C18: an element whose read raises counts as not found for its spelling
\* only: each resolver still returns the value of the first of its spellings
\* that can be read and is not empty
C18_ErrorSkipsOneSpelling ==
    ( /\ Resolved
      /\ \E k \in DOMAIN probe.dataset : probe.dataset[k].value = Throws )
    => answer.resolved =
          IF answer.op = "viewer"
          THEN FirstResolving(probe.dataset,
                   SpellingsOf(TagOf[probe.field]) \o SpellingsOf(AliasOf[probe.field]),
                   ReadsWithPrefix)
          ELSE FirstResolving(probe.dataset,
                   << TagOf[probe.field], "x" \o TagOf[probe.field],
                      toLowerCase(TagOf[probe.field]),
                      toUpperCase(TagOf[probe.field]) >>, Reads)

\* C19: a numeric field of an extracted record is a number, and it is 0
\* when the raw value is empty or does not start with a digit
C19_UnparsableIsZero ==
    (Resolved /\ probe.field \in NumericFields) =>
        LET v == IF answer.op = "viewer" THEN answer.value ELSE answer.upload
            unparsable == \/ answer.resolved = ""
                          \/ IndexIn(CharAt(answer.resolved, 1), DigitChars) = 0
        IN /\ v.t = "num"
           /\ unparsable => v = Num(0)

\* C20: formatDate turns a string of exactly 8 characters into characters
\* 1-4, '-', 5-6, '-', 7-8 and returns every other string unchanged
C20_FormatDate ==
    answer.op = "formatDate" =>
        \A r \in { answer.value.s, answer.upload.s } :
            IF Len(probe.raw) = 8
            THEN /\ Len(r) = 10
                 /\ SubSeq(r, 1, 4) = SubSeq(probe.raw, 1, 4)
                 /\ CharAt(r, 5) = "-"
                 /\ SubSeq(r, 6, 7) = SubSeq(probe.raw, 5, 6)
                 /\ CharAt(r, 8) = "-"
                 /\ SubSeq(r, 9, 10) = SubSeq(probe.raw, 7, 8)
            ELSE r = probe.raw

\* a date of 8 digits has been reformatted
C20_EightDigitsReformatted ==
    /\ answer.op = "formatDate"
    /\ probe.raw = "20230115"
    /\ answer.value = Str("2023-01-15")
    /\ answer.upload = Str("2023-01-15")

\* an element of the drawn dictionary holds an array
HoldsArray(k) == k \in DOMAIN probe.dataset /\ probe.dataset[k].value.t = "arr"

\* C21: an element whose value is an array resolves to its items joined with
\* one backslash between consecutive items, and the non-empty test of the
\* viewer's resolver is applied to the joined string: from a dictionary with
\* an array the resolver returns the first non-empty text so read, and a
\* dictionary of one array filed under the tag resolves to its joined items
C21_ArrayJoinedWithBackslash ==
    (answer.op = "viewer" /\ \E k \in DOMAIN probe.dataset : HoldsArray(k)) =>
        /\ answer.resolved =
              FirstResolving(probe.dataset,
                  SpellingsOf(TagOf[probe.field]) \o SpellingsOf(AliasOf[probe.field]),
                  ReadsWithPrefix)
        /\ DOMAIN probe.dataset = { TagOf[probe.field] } =>
              answer.resolved =
                  Backslashed(probe.dataset[TagOf[probe.field]].value.items)

\* an array without text filed under the tag was passed over, and the array
\* ["CT", "AXIAL"] filed under the keyword was resolved to CT\AXIAL
C21_JoinedArrayResolved ==
    /\ answer.op = "viewer"
    /\ DOMAIN probe.dataset = { TagOf["imageType"], AliasOf["imageType"] }
    /\ probe.dataset[TagOf["imageType"]].value = Arr(<< "" >>)
    /\ probe.dataset[AliasOf["imageType"]].value = Arr(<< "CT", "AXIAL" >>)
    /\ Len(answer.resolved) = 8
    /\ SubSeq(answer.resolved, 1, 2) = "CT"
    /\ SubSeq(answer.resolved, 4, 8) = "AXIAL"
    /\ answer.value = Str(answer.resolved)

\* the current selection's session has ended well: the image is shown, the
\* latest extraction left its result in the record and issued a write-back
EndedLoaded ==
    /\ isImageLoaded
    /\ lastExtract.ran /\ ~lastExtract.threw /\ lastExtract.sent
    /\ dicomMetadata # NullMeta

\* nothing of the session is left to run and it has ended one way or the other
Settled == ~isLoading /\ (EndedLoaded \/ loadError # "none")

\* C22: when every request, timer and file load completes, the session of a
\* selected image eventually settles for good: isLoading is false and the
\* session has ended either with the image loaded, the record merged and a
\* write-back issued, or with loadError set
C22_SessionSettles == <>[](phase = "ready" /\ selectedImage # 0 => Settled)

\* C26: from the same dictionary the upload-time extractor and the view-time
\* extractor produce the same value for a field (imageId apart)
C26_ExtractorsAgree ==
    (answer.op = "both" /\ probe.field # "imageId") => answer.value = answer.upload

\* a file load of the selected image is outstanding
CurrentLoadOutstanding == selectedImage # 0 /\ loads[selectedImage] > 0

\* a load of an image other than the selected one completes
StaleLoadCompletes == \E i \in Images : i # selectedImage /\ loads'[i] < loads[i]

\* C27: isLoading is true exactly while a file load of the selected image is
\* outstanding, and the completion of a load started for another image, while
\* the selected image's load is in flight, changes none of isLoading,
\* isImageLoaded and loadError
C27_LoadingTracksCurrentLoad ==
    [][/\ isLoading' <=> CurrentLoadOutstanding'
       /\ (StaleLoadCompletes /\ CurrentLoadOutstanding) =>
              /\ isLoading' = isLoading
              /\ isImageLoaded' = isImageLoaded
              /\ loadError' = loadError]_vars

\* C30: once an image has been displayed, whatever zoomIn, zoomOut and
\* resetView calls follow, the scale is a multiple of 0.25 and at least 0.25,
\* and right after resetView the scale is 1 and the translation (0, 0)
C30_ScaleOnQuarterGrid ==
    viewport # NoViewport =>
        /\ viewport.scale % 25 = 0
        /\ viewport.scale >= 25
        /\ lastZoom = "reset" =>
              viewport.scale = 100 /\ viewport.x = 0 /\ viewport.y = 0

\* zoomOut has brought the scale down to 0.25
C30_ZoomedOutToLimit == viewport # NoViewport /\ lastZoom = "out" /\ viewport.scale = 25

\* every uploadImage of the batch has run to its end
BatchOver ==
    uploadPath # "none" /\ \A f \in BatchFiles : uploads[f].stage = "done"

\* C23: in a batch, whichever page started it, once nothing of it is pending
\* every file that could be read has been posted and answered, and its
\* result has been given to the caller's `next` handler, whatever happened
\* to the other files
C23_FailureLeavesOthersUploaded ==
    BatchOver =>
        \A f \in BatchFiles :
            fileKinds[f] # "unreadable" =>
                uploads[f].response # "none" /\ uploads[f].delivered = "next"

\* C24: a POST that reached the server without metadata is answered with
\* the id of a new row, and its file is on disk
C24_UploadWithoutMetadataCompletes ==
    \A f \in BatchFiles :
        (uploads[f].reached /\ uploads[f].metadata = "none") =>
            /\ f \in disk
            /\ uploads[f].response = "ok"
            /\ uploads[f].id # 0

\* the files of the batch the server accepted
Accepted == { f \in BatchFiles : uploads[f].response = "ok" }

\* C25: when finishUpload has run, successCount is the number of files the
\* server accepted and failCount the number of the others, and the page
\* went to the gallery only if some file was accepted
C25_CountsMatchServer ==
    (uploadPath = "upload" /\ finished # "no") =>
        /\ successCount = Cardinality(Accepted)
        /\ failCount = Cardinality(BatchFiles \ Accepted)
        /\ finished = "navigated" => Accepted # {}

\* C28: the step that handles the answer of a failed DELETE changes neither
\* the list nor the gallery's selection
C28_FailedDeleteChangesNothing ==
    [][ \A d \in deletes :
          (d.stage = "answered" /\ ~d.ok /\ d \notin deletes') =>
              (subject' = subject /\ gallerySelected' = gallerySelected) ]_vars

\* no request is waiting for its answer
AllArrived ==
    /\ refresh.stage = "done"
    /\ deletes = {}
    /\ \A f \in BatchFiles : uploads[f].stage \in {"idle", "done"}

\* C29: the list never holds an id twice, and once every answer has arrived
\* it holds every image that was uploaded and is still stored
C29_ListMatchesServer ==
    /\ \A i, j \in DOMAIN subject : subject[i] = subject[j] => i = j
    /\ AllArrived =>
          \A f \in BatchFiles :
              ( /\ uploads[f].response = "ok"
                /\ ~uploads[f].closed
                /\ uploads[f].id \in tableIds ) => uploads[f].id \in Listed

==============================================================================
